---- MODULE Spec2Model ----
(***************************************************************************)
(* Model of the Kitty ICO TEE agent (src/oracle/agent.py): the settlement  *)
(* pipeline of KittyICOTEEAgent.process_settlement (collect, decrypt,      *)
(* score, allocate, sign, execute, store), its two triggers (the expiry    *)
(* check of the monitoring loop and the manual process-sale endpoint) and  *)
(* the asyncio event loop the coroutines run on.                           *)
(*                                                                         *)
(* Numbers.  Python floats holding USDC amounts are represented in         *)
(* micro-USDC: BidData.price = float(price_usdc_wei) / 1e6 is the integer  *)
(* price_usdc_wei here, and likewise max_spend.  Where the agent truncates *)
(* a float to an integer (max_affordable, the clearing price and the       *)
(* payments in USDC wei) the result is the integer the floats give for the *)
(* amounts of the initial states: the exact one, or one less for the       *)
(* operands listed in QuotientBelow, ProductBelow and PaymentBelow.        *)
(* Scores are exact fractions [num, den], their float rounding is not      *)
(* modelled.  Amounts in 18-decimal token wei are records [tokens, wei]    *)
(* standing for tokens * 10^18 + wei.  Addresses are the integers          *)
(* 1..NumBidders, ordered as the addresses are.  A Python dict is a        *)
(* function, its keys the DOMAIN.                                          *)
(***************************************************************************)
EXTENDS Integers, Sequences, FiniteSets, TLC

VARIABLES
    now,                 \* time.time(), in whole seconds
    ico_contract,        \* self.ico_contract is not None
    openai_client,       \* self.bid_processor.openai_client is not None
    chain,               \* the contracts: chain[s] = [supply, deadline, settled, bids]
    pyhash,              \* hash(bidder) of this process, per bidder
    active_sales,        \* self.active_sales: the registered sale ids, in insertion order
    processed_sales,     \* self.processed_sales
    settlement_results,  \* self.settlement_results: sale id -> stored settlement
    signatures,          \* per sale, how many times _sign_settlement signed for it
    invocations,         \* how many times process_settlement was called
    task,                \* the coroutines: the monitoring loop and the request handlers
    current,             \* the singleton set of the task running on the event loop, or {}
    running,             \* self.running
    main                 \* where main() is: before, inside or after agent.start()

vars == <<now, ico_contract, openai_client, chain, pyhash, active_sales,
          processed_sales, settlement_results, signatures, invocations, task, current,
          running, main>>

(* ------------------------------ bounds ------------------------------ *)

NumSales == 2
NumBidders == 3
MaxSupply == 2
MaxTime == 2
MaxRuns == 2
NumHandlers == 2

Sales == 1..NumSales
Bidders == 1..NumBidders
MONITOR == 0
Handlers == 1..NumHandlers
Tasks == {MONITOR} \cup Handlers

(* --------------------------- small helpers --------------------------- *)

Min(a, b) == IF a <= b THEN a ELSE b
Max(a, b) == IF a >= b THEN a ELSE b

Range(f) == {f[x] : x \in DOMAIN f}

\* The sequences that list every element of S exactly once.
Perms(S) == {q \in [1..Cardinality(S) -> S] : Range(q) = S}

RECURSIVE SumOver(_, _)
SumOver(f, D) ==
    IF D = {} THEN 0
    ELSE LET x == CHOOSE y \in D : TRUE IN f[x] + SumOver(f, D \ {x})

\* a/b < c/d for fractions with positive denominators.
FracLess(a, b) ==
    IF a.den = b.den THEN a.num < b.num ELSE a.num * b.den < b.num * a.den

(* ------------------------- BidProcessor ------------------------------ *)

USDC_WEI == 1000000

\* Web3.from_wei(x, 'ether') truncated by int(), and x // 1e18.
WholeTokens(amount) == amount.tokens

\* The keys of geo_scores other than 'default'.
geo_scores ==
    [c \in {"US", "CA", "GB", "DE", "JP", "FR", "AU", "SG", "CH", "NL"} |->
        CASE c = "US" -> 90
          [] c \in {"CA", "GB", "CH"} -> 85
          [] c \in {"DE", "JP", "SG", "NL"} -> 80
          [] OTHER -> 75]
GEO_DEFAULT == 50

FALLBACK_COUNTRIES == <<"US", "CA", "GB", "DE", "JP">>

\* f"Innovative blockchain solution from {bidder[:8]}": 44 characters, holding
\* the keywords 'innovative', 'blockchain' and 'ai' (in "blockchain").
FallbackPitch == [len |-> 44, keywords |-> 3]

\* decrypt_bid: the ABI decoding of the blob, or on a decode error the data
\* generated from hash(bidder).  h is hash(bidder).
DecryptBidFallback(bidder, max_spend, h) ==
    [bidder |-> bidder,
     price |-> 100000 + (h % 100) * 1000,
     quantity |-> 1000 + (h % 5000),
     pitch |-> FallbackPitch,
     country |-> FALLBACK_COUNTRIES[(h % 5) + 1],
     max_spend |-> max_spend * USDC_WEI]

DecryptBid(encrypted_blob, bidder, max_spend, h) ==
    IF encrypted_blob.valid
    THEN [bidder |-> bidder,
          price |-> encrypted_blob.price_usdc_wei,
          quantity |-> WholeTokens(encrypted_blob.quantity_tokens_wei),
          pitch |-> encrypted_blob.pitch,
          country |-> encrypted_blob.country,
          max_spend |-> max_spend]
    ELSE DecryptBidFallback(bidder, max_spend, h)

\* _score_pitch without a client: min(len/10 + 30, 85) plus 5 per keyword, at most 100.
PitchFallbackNoClient(pitch) ==
    [num |-> Min(1000, Min(pitch.len + 300, 850) + 50 * pitch.keywords), den |-> 10]

\* _score_pitch when the OpenAI call fails: min(len/10 + 40, 75).
PitchFallbackOnError(pitch) ==
    [num |-> Min(pitch.len + 400, 750), den |-> 10]

\* What the OpenAI call can answer: an error (an exception, or a text that
\* float() does not parse), a number to be clamped, or a text that float()
\* parses as NaN.
OpenAIAnswers == {[error |-> TRUE, nan |-> FALSE, score |-> 0],
                  [error |-> FALSE, nan |-> FALSE, score |-> 0 - 5],
                  [error |-> FALSE, nan |-> FALSE, score |-> 60],
                  [error |-> FALSE, nan |-> FALSE, score |-> 250],
                  [error |-> FALSE, nan |-> TRUE, score |-> 0]}

\* float('nan'), the value no comparison holds for, as the fraction 0/0.
NaN == [num |-> 0, den |-> 0]

\* _score_pitch: answer is the OpenAI call's outcome, read only with a client.
\* min(max(score, 0), 100) returns a NaN as it is: max keeps its first
\* argument unless the second is greater, min unless the second is less.
ScorePitch(pitch, client, answer) ==
    IF ~client THEN PitchFallbackNoClient(pitch)
    ELSE IF answer.error THEN PitchFallbackOnError(pitch)
    ELSE IF answer.nan THEN NaN
    ELSE [num |-> 10 * Min(Max(answer.score, 0), 100), den |-> 10]

\* A price score on the absolute scale whatever max_price is.
PriceScoreAbsolute(price, max_price) ==
    [num |-> Min(100 * 10000, price), den |-> 10000]

\* score_bid's price score: relative to max_price, or on the absolute scale.
PriceScore(price, max_price) ==
    IF max_price > 0
    THEN [num |-> Min(100 * max_price, price * 100), den |-> max_price]
    ELSE [num |-> Min(100 * 10000, price), den |-> 10000]

GeoScore(country) ==
    IF country \in DOMAIN geo_scores THEN geo_scores[country] ELSE GEO_DEFAULT

\* 0.6 * price_score + 0.2 * geo_score + 0.2 * pitch_score (pitch_score in tenths).
TotalScore(price_score, geo_score, pitch_score) ==
    IF pitch_score = NaN THEN NaN
    ELSE [num |-> 60 * price_score.num
                  + (20 * geo_score + 2 * pitch_score.num) * price_score.den,
          den |-> 100 * price_score.den]

ScoreBid(bid_data, max_price, client, answer) ==
    LET price_score == PriceScore(bid_data.price, max_price)
        geo_score == GeoScore(bid_data.country)
        pitch_score == ScorePitch(bid_data.pitch, client, answer)
    IN [bid_data |-> bid_data,
        price_score |-> price_score,
        geo_score |-> geo_score,
        pitch_score |-> pitch_score,
        total_score |-> TotalScore(price_score, geo_score, pitch_score)]

MapDecrypt(bids, hashes) ==
    [i \in 1..Len(bids) |->
        DecryptBid(bids[i].encrypted_data, bids[i].bidder, bids[i].max_spend,
                   hashes[bids[i].bidder])]

\* max_price = max(max_price, bid_data.price), from 0, over the decrypted bids.
RECURSIVE MaxPriceUpTo(_, _)
MaxPriceUpTo(decrypted_bids, n) ==
    IF n = 0 THEN 0
    ELSE Max(MaxPriceUpTo(decrypted_bids, n - 1), decrypted_bids[n].price)

\* The price of the first bid alone, as known when scoring starts with it.
PriceOfFirst(decrypted_bids) ==
    IF decrypted_bids = <<>> THEN 0 ELSE decrypted_bids[1].price

MaxPrice(decrypted_bids) == MaxPriceUpTo(decrypted_bids, Len(decrypted_bids))

\* A second pass in which a failed OpenAI call fails the scoring of the bid,
\* which is then left out.
RECURSIVE MapScoreDroppingUpTo(_, _, _, _, _)
MapScoreDroppingUpTo(decrypted_bids, max_price, client, answers, n) ==
    IF n = 0 THEN <<>>
    ELSE LET prev == MapScoreDroppingUpTo(decrypted_bids, max_price, client, answers, n - 1)
         IN IF client /\ answers[n].error THEN prev
            ELSE Append(prev, ScoreBid(decrypted_bids[n], max_price, client, answers[n]))

MapScoreDroppingErrors(decrypted_bids, max_price, client, answers) ==
    MapScoreDroppingUpTo(decrypted_bids, max_price, client, answers, Len(decrypted_bids))

\* scored_bids.append(await self.bid_processor.score_bid(bid_data, max_price))
\* for every decrypted bid.
MapScore(decrypted_bids, max_price, client, answers) ==
    [i \in 1..Len(decrypted_bids) |->
        ScoreBid(decrypted_bids[i], max_price, client, answers[i])]

(* ------------------------ _determine_winners ------------------------- *)

\* Where sorted(..., reverse=True) puts x among the already sorted bids: the
\* sort is stable, so x goes behind every bid whose score is not lower.
RECURSIVE InsertByScore(_, _)
InsertByScore(sorted, x) ==
    IF sorted = <<>> THEN <<x>>
    ELSE IF FracLess(Head(sorted).total_score, x.total_score)
         THEN <<x>> \o sorted
         ELSE <<Head(sorted)>> \o InsertByScore(Tail(sorted), x)

RECURSIVE SortUpTo(_, _)
SortUpTo(scored_bids, n) ==
    IF n = 0 THEN <<>>
    ELSE InsertByScore(SortUpTo(scored_bids, n - 1), scored_bids[n])

Unsorted(scored_bids) == scored_bids

\* sorted(scored_bids, key=lambda x: x.total_score, reverse=True)
SortedBids(scored_bids) == SortUpTo(scored_bids, Len(scored_bids))

BudgetAsTokens(bid_data) == bid_data.max_spend

AffordableAtLeastOne(bid_data) == Max(1, bid_data.max_spend \div bid_data.price)

\* price and max_spend are Python floats, the USDC wei divided by 1e6, and
\* the quotient of two floats can lie just below the whole number the amounts
\* stand for.  The pairs <<max_spend, price>> in USDC wei, of a max_spend up
\* to 60 and a price up to 12, where it does: 21e-06 / 3e-06, for one, is
\* 6.999999999999999.
QuotientBelow == {<<21, 3>>, <<42, 3>>, <<35, 5>>, <<42, 6>>}

\* int(bid_data.max_spend / bid_data.price)
MaxAffordable(bid_data) ==
    IF <<bid_data.max_spend, bid_data.price>> \in QuotientBelow
    THEN bid_data.max_spend \div bid_data.price - 1
    ELSE bid_data.max_spend \div bid_data.price

AllocationIgnoringSupply(bid_data, remaining_supply) ==
    Min(bid_data.quantity, MaxAffordable(bid_data))

AllocationIgnoringDemand(bid_data, remaining_supply) ==
    Min(MaxAffordable(bid_data), remaining_supply)

\* min(requested, max_affordable, remaining_supply)
Allocation(bid_data, remaining_supply) ==
    Min(Min(bid_data.quantity, MaxAffordable(bid_data)), remaining_supply)

IsAllocatedOrZero(allocation) == allocation >= 0

\* if allocation > 0
IsAllocated(allocation) == allocation > 0

\* bid_amounts[bid_data.bidder] = bid_data.quantity, a later bid of the same
\* bidder replacing an earlier one.
RECURSIVE BidAmountsUpTo(_, _)
BidAmountsUpTo(scored_bids, n) ==
    IF n = 0 THEN <<>>
    ELSE LET prev == BidAmountsUpTo(scored_bids, n - 1)
             b == scored_bids[n].bid_data
         IN [x \in DOMAIN prev \cup {b.bidder} |->
                IF x = b.bidder THEN b.quantity ELSE prev[x]]

\* A total that counts the first bid only.
TotalBidsOfFirst(scored_bids, n) ==
    IF n = 0 THEN 0 ELSE scored_bids[1].bid_data.quantity

\* total_bids += bid_data.quantity over the scored bids.
RECURSIVE TotalBidsUpTo(_, _)
TotalBidsUpTo(scored_bids, n) ==
    IF n = 0 THEN 0
    ELSE TotalBidsUpTo(scored_bids, n - 1) + scored_bids[n].bid_data.quantity

\* A loop that starts with twice the supply to hand out.
AllocStartDoubled(total_supply) ==
    [winners |-> <<>>, allocations |-> <<>>, remaining_supply |-> 2 * total_supply,
     total_value |-> 0, raised |-> FALSE]

\* The state of the allocation loop before its first iteration.
AllocStart(total_supply) ==
    [winners |-> <<>>, allocations |-> <<>>, remaining_supply |-> total_supply,
     total_value |-> 0, raised |-> FALSE]

\* The allocation loop from the i-th sorted bid on.  A price of 0 raises
\* ZeroDivisionError at the division of max_spend by price.
RECURSIVE AllocLoop(_, _, _)
AllocLoop(sorted_bids, i, st) ==
    IF i > Len(sorted_bids) \/ st.remaining_supply <= 0 \/ st.raised THEN st
    ELSE LET bid_data == sorted_bids[i].bid_data IN
         IF bid_data.price = 0 THEN [st EXCEPT !.raised = TRUE]
         ELSE LET allocation == Allocation(bid_data, st.remaining_supply) IN
              IF IsAllocated(allocation)
              THEN AllocLoop(sorted_bids, i + 1,
                     [winners |-> Append(st.winners, bid_data.bidder),
                      allocations |->
                          [x \in DOMAIN st.allocations \cup {bid_data.bidder} |->
                              IF x = bid_data.bidder THEN allocation
                              ELSE st.allocations[x]],
                      remaining_supply |-> st.remaining_supply - allocation,
                      total_value |-> st.total_value + allocation * bid_data.price,
                      raised |-> FALSE])
              ELSE AllocLoop(sorted_bids, i + 1, st)

\* A clearing price that is the total value, not divided by the tokens.
ClearingPriceUnaveraged(total_value, allocated) == [num |-> total_value, den |-> 1]

\* total_value / (total_supply - remaining_supply) if that is above 0, else 0
ClearingPrice(total_value, allocated) ==
    IF allocated > 0 THEN [num |-> total_value, den |-> allocated]
    ELSE [num |-> 0, den |-> 1]

\* _determine_winners: <<result>>, or <<>> when it raises (the logged demand
\* ratio total_bids/total_supply divides by a supply of 0).
DetermineWinners(sale_id, scored_bids, total_supply) ==
    IF total_supply = 0 THEN <<>>
    ELSE LET st == AllocLoop(SortedBids(scored_bids), 1, AllocStart(total_supply))
             allocated == total_supply - st.remaining_supply
         IN IF st.raised THEN <<>>
            ELSE << [sale_id |-> sale_id,
                     clearing_price |-> ClearingPrice(st.total_value, allocated),
                     winners |-> st.winners,
                     allocations |-> st.allocations,
                     bid_amounts |-> BidAmountsUpTo(scored_bids, Len(scored_bids)),
                     total_bids |-> TotalBidsUpTo(scored_bids, Len(scored_bids))] >>

(* ------------------- encoding, signing, storing ---------------------- *)

ICO_ADDRESS == "ico_contract_address"

\* An encoding that lists the winners last to first.
EncodeWinnersReversed(settlement_result) ==
    [clearing_price_usdc_wei |->
        settlement_result.clearing_price.num \div settlement_result.clearing_price.den,
     winners |-> [i \in 1..Len(settlement_result.winners) |->
                     settlement_result.winners[Len(settlement_result.winners) + 1 - i]]]

\* clearing_price is a Python float, and its product with 1e6 can lie just
\* below the whole number of USDC wei it stands for.  The pairs <<total
\* value, tokens allocated>> of the bids of the initial states where it does:
\* five tokens at 7e-06 give 3.5e-05 / 5 = 6.999999999999999e-06, and
\* 6.999999999999999 USDC wei.
ProductBelow == {<<35, 5>>, <<36, 6>>, <<56, 8>>}

\* int(settlement_result.clearing_price * 1e6)
ClearingPriceWei(clearing_price) ==
    IF <<clearing_price.num, clearing_price.den>> \in ProductBelow
    THEN clearing_price.num \div clearing_price.den - 1
    ELSE clearing_price.num \div clearing_price.den

\* _encode_settlement_result: (uint256 clearingPrice in USDC wei, address[] winners)
EncodeSettlementResult(settlement_result) ==
    [clearing_price_usdc_wei |-> ClearingPriceWei(settlement_result.clearing_price),
     winners |-> settlement_result.winners]

\* A message hash that leaves the sale's id out.
MessageHashWithoutSaleId(contract_address, sale_id, result_data) ==
    [contract_address |-> contract_address, sale_id |-> 0, result_data |-> result_data]

\* keccak(encode(['address', 'uint256', 'bytes'], [contract_address, sale_id,
\* result_data])): the ABI encoding is one-to-one and the hash is taken as
\* collision-free, so the hash stands for the three values it was made of.
MessageHash(contract_address, sale_id, result_data) ==
    [contract_address |-> contract_address, sale_id |-> sale_id,
     result_data |-> result_data]

\* _sign_settlement: the TEE key's signature of the message hash made with
\* self.ico_address.
SignSettlement(sale_id, result_data) ==
    [signer |-> "tee_account",
     message_hash |-> MessageHash(ICO_ADDRESS, sale_id, result_data)]

\* The settlement_data dictionary of _store_settlement_result.
SettlementData(settlement_result, signature, timestamp) ==
    [sale_id |-> settlement_result.sale_id,
     clearing_price |-> settlement_result.clearing_price,
     winners |-> settlement_result.winners,
     allocations |-> settlement_result.allocations,
     bid_amounts |-> settlement_result.bid_amounts,
     total_bids |-> settlement_result.total_bids,
     signature |-> signature,
     timestamp |-> timestamp]

\* A store that keeps nothing but the settlement it is given.
StoreReplacingAll(results, settlement_result, signature, timestamp) ==
    [s \in {settlement_result.sale_id} |->
        SettlementData(settlement_result, signature, timestamp)]

\* self.settlement_results[sale_id] = settlement_data
StoreSettlementResult(results, settlement_result, signature, timestamp) ==
    [s \in DOMAIN results \cup {settlement_result.sale_id} |->
        IF s = settlement_result.sale_id
        THEN SettlementData(settlement_result, signature, timestamp)
        ELSE results[s]]

\* The triples <<total value, tokens allocated, token_allocation>> of the bids
\* of the initial states where the float token_allocation * clearing_price *
\* 1e6 lies just below the whole number of USDC wei it stands for: 3 *
\* 6.999999999999999e-06 * 1e6 is 20.999999999999996.
PaymentBelow == {<<36, 6, 1>>, <<36, 6, 5>>, <<56, 8, 3>>}

\* int(token_allocation * settlement_result.clearing_price * 1e6)
UsdcPayment(token_allocation, clearing_price) ==
    IF <<clearing_price.num, clearing_price.den, token_allocation>> \in PaymentBelow
    THEN (token_allocation * clearing_price.num) \div clearing_price.den - 1
    ELSE (token_allocation * clearing_price.num) \div clearing_price.den

\* The settlements array of _build_settlement_params: for every key of
\* allocations the token amount and the payment in USDC wei.
BuildSettlementParams(settlement_result) ==
    [winner \in DOMAIN settlement_result.allocations |->
        [token_amount |-> settlement_result.allocations[winner],
         usdc_payment |-> UsdcPayment(settlement_result.allocations[winner],
                                      settlement_result.clearing_price)]]

\* What _execute_batch_settlement can do: the transaction is confirmed with
\* status 1, confirmed with another status, not sent (low balance, failed gas
\* estimate: a plain return), or an exception leaves the function.
BatchOutcomes == {"confirmed", "reverted", "skipped", "raised"}

(* ----------------------- the event loop and tasks -------------------- *)

\* The agent's configuration and the chain, which only a confirmed batch
\* settlement changes.
config == <<ico_contract, openai_client, chain, pyhash>>

\* What only main() and start() change.
lifecycle == <<running, main>>

\* A coroutine that is not inside process_settlement or the expiry check.
IdleTask ==
    [pc |-> "idle", sale |-> 0, queue |-> <<>>, current_time |-> 0,
     bids |-> <<>>, decrypted_bids |-> <<>>, max_price |-> 0, scored_bids |-> <<>>,
     answers |-> <<>>, result |-> <<>>, signature |-> <<>>, outcome |-> "none"]

SuspendsWhileScoring(pc) == pc \in {"rpc", "score"}

\* Whether a coroutine that reaches pc gives the event loop away there.  Only
\* _get_events_via_rpc awaits real I/O (aiohttp); the web3 and OpenAI calls
\* block, and awaiting a coroutine that never suspends does not yield.
Suspends(pc) == pc = "rpc"

\* Task t may take a step: it holds the event loop, or the loop is free.
CanRun(t) == current \subseteq {t}

Holder(t, pc) == IF Suspends(pc) THEN {} ELSE {t}

DeadlineAlwaysPassed(s) == TRUE

\* process_settlement's check: not (int(time.time()) < deadline)
SaleEnded(s) == ~(now < chain[s].deadline)

\* A return that reports success and marks the sale whatever happened.
ReturnSwallowing(t, s, ok) ==
    /\ task' = [task EXCEPT ![t] =
                   IF t = MONITOR
                   THEN [IdleTask EXCEPT !.pc = "check",
                                         !.queue = Tail(task[t].queue),
                                         !.current_time = task[t].current_time]
                   ELSE [IdleTask EXCEPT !.outcome = "success"]]
    /\ processed_sales' = IF t = MONITOR THEN processed_sales \cup {s}
                          ELSE processed_sales
    /\ current' = IF t = MONITOR THEN {t} ELSE {}

\* An expiry check that adds the sale to processed_sales although
\* process_settlement raised.
ReturnMarkingAlways(t, s, ok) ==
    /\ task' = [task EXCEPT ![t] =
                   IF t = MONITOR
                   THEN [IdleTask EXCEPT !.pc = "check",
                                         !.queue = Tail(task[t].queue),
                                         !.current_time = task[t].current_time]
                   ELSE [IdleTask EXCEPT !.outcome = IF ok THEN "success" ELSE "error"]]
    /\ processed_sales' = IF t = MONITOR THEN processed_sales \cup {s}
                          ELSE processed_sales
    /\ current' = IF t = MONITOR THEN {t} ELSE {}

\* process_settlement returns (ok) or raises (~ok) to its caller.  The expiry
\* check adds the sale to processed_sales on a return, logs on an exception,
\* and goes on with its loop; the endpoint answers success or an error and
\* its handler ends.
Return(t, s, ok) ==
    /\ task' = [task EXCEPT ![t] =
                   IF t = MONITOR
                   THEN [IdleTask EXCEPT !.pc = "check",
                                         !.queue = Tail(task[t].queue),
                                         !.current_time = task[t].current_time]
                   ELSE [IdleTask EXCEPT !.outcome = IF ok THEN "success" ELSE "error"]]
    /\ processed_sales' = IF t = MONITOR /\ ok THEN processed_sales \cup {s}
                          ELSE processed_sales
    /\ current' = IF t = MONITOR THEN {t} ELSE {}

\* process_settlement from its entry to the scan for BidSubmitted events: it
\* raises without a contract or before the deadline; the scan uses the
\* contract's event filter or, when that fails, awaits the direct RPC call.
\* No run starts after MaxRuns runs.
Begin(t, s) ==
    /\ invocations < MaxRuns
    /\ invocations' = invocations + 1
    /\ IF ~ico_contract \/ ~SaleEnded(s)
       THEN Return(t, s, FALSE)
       ELSE /\ \E rpc \in BOOLEAN :
                 LET pc == IF rpc THEN "rpc" ELSE "collect" IN
                 /\ task' = [task EXCEPT ![t].pc = pc, ![t].sale = s,
                                         ![t].outcome = "none"]
                 /\ current' = Holder(t, pc)
            /\ UNCHANGED processed_sales

\* time passes
Tick ==
    /\ now < MaxTime
    /\ now' = now + 1
    /\ UNCHANGED <<config, lifecycle, active_sales, processed_sales, settlement_results,
                   signatures, invocations, task, current>>

RegisteredIds == {active_sales[i].id : i \in DOMAIN active_sales}

\* The elements of a set of sale ids in ascending order, as the events of
\* sales created one after the other are listed.
RECURSIVE Ascending(_)
Ascending(S) ==
    IF S = {} THEN <<>>
    ELSE LET m == CHOOSE x \in S : \A y \in S : x <= y
         IN <<m>> \o Ascending(S \ {m})

\* One pass of the monitoring loop's body up to the expiry check's loop:
\* _check_ico_events registers the sales of the SaleCreated events it reads,
\* every sale not yet registered or, when the query fails, none; then
\* _check_expired_sales reads the clock and lists active_sales.
MonitorIteration ==
    /\ task[MONITOR].pc = "idle"
    /\ current = {}
    /\ \E seen \in {{}, Sales \ RegisteredIds} :
         /\ ico_contract \/ seen = {}
         /\ LET order == Ascending(seen)
                registered ==
                    active_sales \o
                    [i \in 1..Len(order) |->
                        [id |-> order[i], deadline |-> chain[order[i]].deadline]]
            IN /\ active_sales' = registered
               /\ task' = [task EXCEPT ![MONITOR].pc = "check",
                                       ![MONITOR].queue = registered,
                                       ![MONITOR].current_time = now]
    /\ current' = {MONITOR}
    /\ UNCHANGED <<now, config, lifecycle, processed_sales, settlement_results, signatures,
                   invocations>>

\* _check_expired_sales: the next sale of the list, or the end of the list,
\* after which the monitoring loop sleeps.
MonitorNext ==
    /\ task[MONITOR].pc = "check"
    /\ CanRun(MONITOR)
    /\ IF task[MONITOR].queue = <<>>
       THEN /\ task' = [task EXCEPT ![MONITOR] = IdleTask]
            /\ current' = {}
            /\ UNCHANGED <<processed_sales, invocations>>
       ELSE LET sale_data == Head(task[MONITOR].queue) IN
            IF sale_data.deadline <= task[MONITOR].current_time
               /\ sale_data.id \notin processed_sales
            THEN Begin(MONITOR, sale_data.id)
            ELSE /\ task' = [task EXCEPT ![MONITOR].queue = Tail(@)]
                 /\ current' = {MONITOR}
                 /\ UNCHANGED <<processed_sales, invocations>>
    /\ UNCHANGED <<now, config, lifecycle, active_sales, settlement_results, signatures>>

\* process_sale_endpoint: POST /process-sale/{sale_id}, each request handled
\* by a task of its own; a request takes the first handler that is free.
ProcessSaleEndpoint(t, s) ==
    /\ t \in Handlers
    /\ task[t].pc = "idle"
    /\ \A u \in Handlers : u < t => task[u].pc # "idle"
    /\ current = {}
    /\ Begin(t, s)
    /\ UNCHANGED <<now, config, lifecycle, active_sales, settlement_results, signatures>>

\* _get_events_via_rpc answers and the coroutine is resumed.
RpcResume(t) ==
    /\ task[t].pc = "rpc"
    /\ CanRun(t)
    /\ task' = [task EXCEPT ![t].pc = "collect"]
    /\ current' = Holder(t, "collect")
    /\ UNCHANGED <<now, config, lifecycle, active_sales, processed_sales, settlement_results,
                   signatures, invocations>>

\* The rest of _get_bids_for_sale: the bidders of the events found (a range
\* of blocks whose search fails is skipped, a failed scan finds nobody) as
\* list(set(bidders)) in some order, then bidOf for each; no bid ends the run.
Collect(t) ==
    /\ task[t].pc = "collect"
    /\ CanRun(t)
    /\ LET s == task[t].sale
           onchain == chain[s].bids
       IN \E found \in SUBSET DOMAIN onchain : \E bidders \in Perms(found) :
            LET bids == [i \in 1..Len(bidders) |->
                           [bidder |-> bidders[i],
                            encrypted_data |-> onchain[bidders[i]].encrypted_data,
                            max_spend |-> onchain[bidders[i]].max_spend]]
            IN IF bids = <<>>
               THEN Return(t, s, TRUE)
               ELSE /\ task' = [task EXCEPT ![t].pc = "decrypt", ![t].bids = bids]
                    /\ current' = Holder(t, "decrypt")
                    /\ UNCHANGED processed_sales
    /\ UNCHANGED <<now, config, lifecycle, active_sales, settlement_results, signatures,
                   invocations>>

\* First pass: decrypt every bid and find the highest price.
Decrypt(t) ==
    /\ task[t].pc = "decrypt"
    /\ CanRun(t)
    /\ LET decrypted_bids == MapDecrypt(task[t].bids, pyhash) IN
         task' = [task EXCEPT ![t].pc = "score",
                              ![t].decrypted_bids = decrypted_bids,
                              ![t].max_price = MaxPrice(decrypted_bids)]
    /\ current' = Holder(t, "score")
    /\ UNCHANGED <<now, config, lifecycle, active_sales, processed_sales, settlement_results,
                   signatures, invocations>>

\* The answer of a run that has no client to ask.
NoAnswer == [error |-> TRUE, nan |-> FALSE, score |-> 0]

\* Second pass: score every decrypted bid against max_price.
Score(t) ==
    /\ task[t].pc = "score"
    /\ CanRun(t)
    /\ LET n == Len(task[t].decrypted_bids) IN
       \E answers \in IF openai_client THEN [1..n -> OpenAIAnswers]
                      ELSE {[i \in 1..n |-> NoAnswer]} :
         LET scored_bids == MapScore(task[t].decrypted_bids, task[t].max_price,
                                     openai_client, answers)
         IN IF scored_bids = <<>>
            THEN Return(t, task[t].sale, TRUE)
            ELSE /\ task' = [task EXCEPT ![t].pc = "allocate",
                                         ![t].answers = answers,
                                         ![t].scored_bids = scored_bids]
                 /\ current' = Holder(t, "allocate")
                 /\ UNCHANGED processed_sales
    /\ UNCHANGED <<now, config, lifecycle, active_sales, settlement_results, signatures,
                   invocations>>

\* settlement_result = await self._determine_winners(sale_id, scored_bids, supply)
Allocate(t) ==
    /\ task[t].pc = "allocate"
    /\ CanRun(t)
    /\ LET s == task[t].sale
           supply == WholeTokens(chain[s].supply)
           result == DetermineWinners(s, task[t].scored_bids, supply)
       IN IF result = <<>>
          THEN Return(t, s, FALSE)
          ELSE /\ task' = [task EXCEPT ![t].pc = "sign", ![t].result = result]
               /\ current' = Holder(t, "sign")
               /\ UNCHANGED processed_sales
    /\ UNCHANGED <<now, config, lifecycle, active_sales, settlement_results, signatures,
                   invocations>>

\* _execute_settlement up to the signature: encode the result and sign it.
\* _encode_settlement_result and _sign_settlement log and re-raise what goes
\* wrong in them (get_account raises without an initialized key).
Sign(t) ==
    /\ task[t].pc = "sign"
    /\ CanRun(t)
    /\ LET s == task[t].sale
           result_data == EncodeSettlementResult(task[t].result[1])
       IN \E signed \in BOOLEAN :
            IF signed
            THEN /\ task' = [task EXCEPT
                               ![t].pc = "execute",
                               ![t].signature = <<SignSettlement(s, result_data)>>]
                 /\ signatures' = [signatures EXCEPT ![s] = @ + 1]
                 /\ current' = Holder(t, "execute")
                 /\ UNCHANGED processed_sales
            ELSE /\ Return(t, s, FALSE)
                 /\ UNCHANGED signatures
    /\ UNCHANGED <<now, config, lifecycle, active_sales, settlement_results, invocations>>

\* The rest of _execute_settlement: _verify_permits, _execute_batch_settlement
\* and, unless that raised, _store_settlement_result.  A transaction that is
\* confirmed with status 1 has settled the sale on the chain.
Execute(t) ==
    /\ task[t].pc = "execute"
    /\ CanRun(t)
    /\ \E batch \in BatchOutcomes :
         /\ chain' = IF batch = "confirmed"
                     THEN [chain EXCEPT ![task[t].sale].settled = TRUE]
                     ELSE chain
         /\ IF batch = "raised"
            THEN /\ Return(t, task[t].sale, FALSE)
                 /\ UNCHANGED settlement_results
            ELSE /\ settlement_results' =
                        StoreSettlementResult(settlement_results, task[t].result[1],
                                              task[t].signature[1], now)
                 /\ Return(t, task[t].sale, TRUE)
    /\ UNCHANGED <<now, ico_contract, openai_client, pyhash, lifecycle, active_sales,
                   signatures, invocations>>

(* ------------------------- main() and start() ------------------------ *)

\* What main() and start() leave alone.
agent == <<now, config, active_sales, processed_sales, settlement_results,
           signatures, invocations, task, current>>

\* main() calls agent.start(), which returns at once when the agent is
\* already running; otherwise _validate_environment raises on a missing
\* variable, and main() exits, or _setup_http_server brings the endpoints up.
Start ==
    /\ main = "created"
    /\ current = {}
    /\ \E valid \in BOOLEAN :
         main' = IF running THEN "started"
                 ELSE IF valid THEN "serving" ELSE "exited"
    /\ UNCHANGED <<agent, running>>

\* await self._start_monitoring(), then self.running = True.  The loop of
\* _start_monitoring is `while self.running`: it is entered only when running
\* is set already, and otherwise _start_monitoring returns at once.
StartMonitoring ==
    /\ main = "serving"
    /\ current = {}
    /\ IF running
       THEN main' = "monitoring" /\ UNCHANGED running
       ELSE main' = "started" /\ running' = TRUE
    /\ UNCHANGED agent

\* main() after start() returned: await asyncio.sleep(300)
MainSleep ==
    /\ main = "started"
    /\ current = {}
    /\ main' = "sleeping"
    /\ UNCHANGED <<agent, running>>

\* main() wakes up and calls start() again only if the agent is not running.
MainWake ==
    /\ main = "sleeping"
    /\ current = {}
    /\ main' = IF running THEN "started" ELSE "created"
    /\ UNCHANGED <<agent, running>>

\* The endpoints answer once _setup_http_server has started the site.
ServerUp == main \notin {"created", "exited"}

ServedRequest(t, s) == ServerUp /\ ProcessSaleEndpoint(t, s)

(* ------------------------- initial states ---------------------------- *)

Pitch(len, keywords) == [len |-> len, keywords |-> keywords]

\* An encBlob that ABI-decodes to (price, quantity, pitch, country).
Blob(price, tokens, wei, country) ==
    [valid |-> TRUE, price_usdc_wei |-> price,
     quantity_tokens_wei |-> [tokens |-> tokens, wei |-> wei],
     pitch |-> Pitch(20, 1), country |-> country]

\* An encBlob that does not ABI-decode.
UndecodableBlob ==
    [valid |-> FALSE, price_usdc_wei |-> 0,
     quantity_tokens_wei |-> [tokens |-> 0, wei |-> 0],
     pitch |-> Pitch(0, 0), country |-> ""]

\* bidOf(sale, bidder): the blob and maxSpend in USDC wei.
OnchainBid(blob, max_spend) == [encrypted_data |-> blob, max_spend |-> max_spend]

BidProfiles ==
    {OnchainBid(Blob(2, 2, 0, "US"), 4),
     OnchainBid(Blob(2, 3, 5, "US"), 2),
     OnchainBid(Blob(1, 1, 0, "US"), 0),
     OnchainBid(Blob(1, 2, 0, "BR"), 5)}

NoBids == <<>>

\* The sales of the agent's scenario, all ending at time 1: sale 1 has two
\* bids of equal score for more tokens than its supply, every other sale one bid.
ScenarioChain ==
    [s \in Sales |->
        [supply |-> [tokens |-> IF s = 1 THEN 2 ELSE 1, wei |-> 7],
         deadline |-> 1,
         settled |-> FALSE,
         bids |-> IF s = 1
                  THEN [b \in {1, 2} |->
                           IF b = 1 THEN OnchainBid(Blob(2, 2, 0, "US"), 4)
                           ELSE OnchainBid(Blob(2, 3, 5, "US"), 2)]
                  ELSE [b \in {3} |-> OnchainBid(Blob(1, 2, 0, "BR"), 5)]]]

\* The agent after construction, over the scenario's chain, with or without
\* the ICO contract configured and, as with the default OPENAI_API_KEY, no
\* OpenAI client.
Init ==
    /\ now = 0
    /\ ico_contract \in BOOLEAN
    /\ openai_client = FALSE
    /\ chain = ScenarioChain
    /\ pyhash = [b \in Bidders |-> 0]
    /\ active_sales = <<>>
    /\ processed_sales = {}
    /\ settlement_results = <<>>
    /\ signatures = [s \in Sales |-> 0]
    /\ invocations = 0
    /\ task = [t \in Tasks |-> IdleTask]
    /\ current = {}
    /\ running = FALSE
    /\ main = "created"

\* The agent after construction, over any bids for sale 1 and any supply,
\* the sale ended and no pitch evaluator configured.
InitAlloc ==
    /\ now = 1
    /\ ico_contract = TRUE
    /\ openai_client = FALSE
    /\ chain \in {[s \in Sales |->
                     [supply |-> [tokens |-> IF s = 1 THEN n ELSE 1, wei |-> 0],
                      deadline |-> 0,
                      settled |-> FALSE,
                      bids |-> IF s = 1 THEN f ELSE NoBids]] :
                  n \in 1..MaxSupply,
                  f \in UNION {[D -> BidProfiles] : D \in SUBSET Bidders}}
    /\ pyhash = [b \in Bidders |-> 0]
    /\ active_sales = <<>>
    /\ processed_sales = {}
    /\ settlement_results = <<>>
    /\ signatures = [s \in Sales |-> 0]
    /\ invocations = MaxRuns - 1
    /\ task = [t \in Tasks |-> IdleTask]
    /\ current = {}
    /\ running = FALSE
    /\ main = "created"

\* Raw bids as they can sit on chain: a well-formed one, one whose blob does
\* not ABI-decode, one that decodes to a price of 0 and one that decodes to
\* less than one whole token.
RawProfiles ==
    {OnchainBid(Blob(2, 1, 0, "US"), 4),
     OnchainBid(UndecodableBlob, 3),
     OnchainBid(Blob(0, 2, 0, "US"), 4),
     OnchainBid(Blob(1, 0, 5, "US"), 3)}

\* hash(bidder) of this interpreter run.
RunHash == [b \in Bidders |-> 4207 * b]

\* The agent after construction, over any raw bids for sale 1 and any
\* supply, the sale ended and no pitch evaluator configured.
InitRun ==
    /\ now = 1
    /\ ico_contract = TRUE
    /\ openai_client = FALSE
    /\ chain \in {[s \in Sales |->
                     [supply |-> [tokens |-> IF s = 1 THEN n ELSE 1, wei |-> 0],
                      deadline |-> 0,
                      settled |-> FALSE,
                      bids |-> IF s = 1 THEN f ELSE NoBids]] :
                  n \in 1..MaxSupply,
                  f \in UNION {[D -> RawProfiles] : D \in SUBSET Bidders}}
    /\ pyhash = RunHash
    /\ active_sales = <<>>
    /\ processed_sales = {}
    /\ settlement_results = <<>>
    /\ signatures = [s \in Sales |-> 0]
    /\ invocations = MaxRuns - 1
    /\ task = [t \in Tasks |-> IdleTask]
    /\ current = {}
    /\ running = FALSE
    /\ main = "created"

\* Bids as _determine_winners takes them: (price in USDC wei, quantity,
\* max_spend in USDC wei): 2.0 USDC for 800 tokens with 2000 USDC, 1.5 USDC
\* for 500 tokens with 1000 USDC, and 2.0 USDC for 500 tokens with nothing.
WinnerProfiles ==
    {<<2000000, 800, 2000000000>>, <<1500000, 500, 1000000000>>, <<2000000, 500, 0>>}

\* The total scores the bids are given.
WinnerScores == {70, 90}

\* The supplies of the sale, in whole tokens.
WinnerSupplies == {200, 800, 1000}

\* A ScoredBid of a bidder with a profile and a total score: its three
\* sub-scores are the score itself, the price score over 1 and the pitch
\* score in tenths.
ScoredBidOf(bidder, profile, score) ==
    [bid_data |-> [bidder |-> bidder, price |-> profile[1], quantity |-> profile[2],
                   pitch |-> Pitch(20, 1), country |-> "US", max_spend |-> profile[3]],
     price_score |-> [num |-> score, den |-> 1],
     geo_score |-> score,
     pitch_score |-> [num |-> 10 * score, den |-> 10],
     total_score |-> TotalScore([num |-> score, den |-> 1], score,
                                [num |-> 10 * score, den |-> 10])]

\* process_settlement at its call of _determine_winners for sale 1, with any
\* scored bids of distinct bidders in any order and any of the supplies.
InitWinners ==
    /\ now = 1
    /\ ico_contract = TRUE
    /\ openai_client = FALSE
    /\ chain \in {[s \in Sales |->
                     [supply |-> [tokens |-> IF s = 1 THEN n ELSE 1, wei |-> 0],
                      deadline |-> 0,
                      settled |-> FALSE,
                      bids |-> NoBids]] : n \in WinnerSupplies}
    /\ pyhash = [b \in Bidders |-> 0]
    /\ active_sales = <<>>
    /\ processed_sales = {}
    /\ settlement_results = <<>>
    /\ signatures = [s \in Sales |-> 0]
    /\ invocations = MaxRuns
    /\ \E D \in SUBSET Bidders :
         \E f \in [D -> WinnerProfiles \X WinnerScores], order \in Perms(D) :
            task = [t \in Tasks |->
                      IF t = 1
                      THEN [IdleTask EXCEPT
                              !.pc = "allocate",
                              !.sale = 1,
                              !.scored_bids =
                                  [i \in 1..Len(order) |->
                                      ScoredBidOf(order[i], f[order[i]][1],
                                                  f[order[i]][2])]]
                      ELSE IdleTask]
    /\ current = {1}
    /\ running = FALSE
    /\ main = "created"

\* Bids to score: a short pitch with one keyword from a listed country, and
\* at half the price a long pitch with four keywords from an unlisted one.
ScoreProfiles ==
    {OnchainBid(Blob(2, 2, 0, "US"), 4),
     OnchainBid([Blob(1, 2, 0, "XX") EXCEPT !.pitch = Pitch(800, 4)], 5)}

\* The agent after construction, with or without an OpenAI client, over any
\* bids to score for sale 1, the sale ended.
InitScore ==
    /\ now = 1
    /\ ico_contract = TRUE
    /\ openai_client \in BOOLEAN
    /\ chain \in {[s \in Sales |->
                     [supply |-> [tokens |-> IF s = 1 THEN MaxSupply ELSE 1, wei |-> 0],
                      deadline |-> 0,
                      settled |-> FALSE,
                      bids |-> IF s = 1 THEN f ELSE NoBids]] :
                  f \in UNION {[D -> ScoreProfiles] : D \in SUBSET Bidders}}
    /\ pyhash = [b \in Bidders |-> 0]
    /\ active_sales = <<>>
    /\ processed_sales = {}
    /\ settlement_results = <<>>
    /\ signatures = [s \in Sales |-> 0]
    /\ invocations = MaxRuns - 1
    /\ task = [t \in Tasks |-> IdleTask]
    /\ current = {}
    /\ running = FALSE
    /\ main = "created"

\* Bids with a budget that just covers them at their own price: 4 USDC wei
\* for one token with 4 to spend, 1 for one token with 1 to spend, 3 each
\* for seven tokens with 21 to spend, and 7 each for five tokens with 35.
PayProfiles ==
    {OnchainBid(Blob(4, 1, 0, "US"), 4),
     OnchainBid(Blob(1, 1, 0, "US"), 1),
     OnchainBid(Blob(3, 7, 0, "US"), 21),
     OnchainBid(Blob(7, 5, 0, "US"), 35)}

\* The supplies of the sale, in whole tokens.
PaySupplies == {2, 8}

\* The agent after construction, over any such bids for sale 1 and any
\* supply, the sale ended and no pitch evaluator configured.
InitPay ==
    /\ now = 1
    /\ ico_contract = TRUE
    /\ openai_client = FALSE
    /\ chain \in {[s \in Sales |->
                     [supply |-> [tokens |-> IF s = 1 THEN n ELSE 1, wei |-> 0],
                      deadline |-> 0,
                      settled |-> FALSE,
                      bids |-> IF s = 1 THEN f ELSE NoBids]] :
                  n \in PaySupplies,
                  f \in UNION {[D -> PayProfiles] : D \in SUBSET Bidders}}
    /\ pyhash = [b \in Bidders |-> 0]
    /\ active_sales = <<>>
    /\ processed_sales = {}
    /\ settlement_results = <<>>
    /\ signatures = [s \in Sales |-> 0]
    /\ invocations = MaxRuns - 1
    /\ task = [t \in Tasks |-> IdleTask]
    /\ current = {}
    /\ running = FALSE
    /\ main = "created"

\* The scenario's chain with the sales other than sale 1 ending with sale 1
\* or after the last time of the clock.
MonitorChains ==
    {[s \in Sales |->
         [ScenarioChain[s] EXCEPT !.deadline = IF s = 1 THEN 1 ELSE deadline]] :
     deadline \in {1, MaxTime + 1}}

\* The agent after construction with the ICO contract configured, over any
\* of these chains.
InitMonitor ==
    /\ now = 0
    /\ ico_contract = TRUE
    /\ openai_client = FALSE
    /\ chain \in MonitorChains
    /\ pyhash = [b \in Bidders |-> 0]
    /\ active_sales = <<>>
    /\ processed_sales = {}
    /\ settlement_results = <<>>
    /\ signatures = [s \in Sales |-> 0]
    /\ invocations = 0
    /\ task = [t \in Tasks |-> IdleTask]
    /\ current = {}
    /\ running = FALSE
    /\ main = "created"

Next ==
    \/ Tick
    \/ MonitorIteration
    \/ MonitorNext
    \/ \E t \in Handlers, s \in Sales : ProcessSaleEndpoint(t, s)
    \/ \E t \in Tasks : RpcResume(t)
    \/ \E t \in Tasks : Collect(t)
    \/ \E t \in Tasks : Decrypt(t)
    \/ \E t \in Tasks : Score(t)
    \/ \E t \in Tasks : Allocate(t)
    \/ \E t \in Tasks : Sign(t)
    \/ \E t \in Tasks : Execute(t)

\* The pipeline of one manual run for sale 1 up to the allocation.
NextAlloc ==
    \/ ProcessSaleEndpoint(1, 1)
    \/ RpcResume(1)
    \/ Collect(1)
    \/ Decrypt(1)
    \/ Score(1)
    \/ Allocate(1)

\* The pipeline of one manual run for sale 1 up to the scoring.
NextScore ==
    \/ ProcessSaleEndpoint(1, 1)
    \/ RpcResume(1)
    \/ Collect(1)
    \/ Decrypt(1)
    \/ Score(1)

\* The call of _determine_winners and what follows it in the run.
NextWinners ==
    \/ Allocate(1)
    \/ Sign(1)
    \/ Execute(1)

\* One manual run for sale 1, from the request to its answer.
NextRun ==
    \/ ProcessSaleEndpoint(1, 1)
    \/ RpcResume(1)
    \/ Collect(1)
    \/ Decrypt(1)
    \/ Score(1)
    \/ Allocate(1)
    \/ Sign(1)
    \/ Execute(1)

\* The agent as main() runs it: start(), then the sleep loop of main(), with
\* the requests the HTTP server takes in and the runs they start.
NextStart ==
    \/ Tick
    \/ Start
    \/ StartMonitoring
    \/ MainSleep
    \/ MainWake
    \/ \E t \in Handlers, s \in Sales : ServedRequest(t, s)
    \/ \E t \in Handlers : RpcResume(t)
    \/ \E t \in Handlers : Collect(t)
    \/ \E t \in Handlers : Decrypt(t)
    \/ \E t \in Handlers : Score(t)
    \/ \E t \in Handlers : Allocate(t)
    \/ \E t \in Handlers : Sign(t)
    \/ \E t \in Handlers : Execute(t)

Spec == Init /\ [][Next]_vars

SpecAlloc == InitAlloc /\ [][NextAlloc]_vars

SpecRun == InitRun /\ [][NextRun]_vars

SpecWinners == InitWinners /\ [][NextWinners]_vars

SpecScore == InitScore /\ [][NextScore]_vars

SpecPay == InitPay /\ [][NextRun]_vars

\* The monitoring loop alone, no request reaching the manual endpoint.
NextMonitor ==
    \/ Tick
    \/ MonitorIteration
    \/ MonitorNext
    \/ RpcResume(MONITOR)
    \/ Collect(MONITOR)
    \/ Decrypt(MONITOR)
    \/ Score(MONITOR)
    \/ Allocate(MONITOR)
    \/ Sign(MONITOR)
    \/ Execute(MONITOR)

SpecMonitor == InitMonitor /\ [][NextMonitor]_vars

\* The event loop runs whatever is ready to run.
SpecStart == Init /\ [][NextStart]_vars /\ WF_vars(NextStart)

(* ---------------------------- properties ----------------------------- *)

\* The run of task t has the result of _determine_winners in hand.
HasResult(t) == task[t].result # <<>>
ResultOf(t) == task[t].result[1]
SupplyOf(t) == WholeTokens(chain[task[t].sale].supply)

\* The bid data of the scored bids of task t's run.
BidDataOf(t) == {task[t].scored_bids[i].bid_data : i \in DOMAIN task[t].scored_bids}

\* The tokens a result gives to a bidder: nothing to a bidder who did not win.
Allocated(r, bidder) == IF bidder \in DOMAIN r.allocations THEN r.allocations[bidder] ELSE 0

\* What a bid asks for and can pay for at its own price.
Entitlement(bid_data) == Min(bid_data.quantity, bid_data.max_spend \div bid_data.price)

\* The position of process_settlement between the start of the scoring and
\* the end of the signing, and anywhere after its deadline check.
PipelinePcs == {"score", "allocate", "sign"}
RunPcs == {"rpc", "collect", "decrypt", "score", "allocate", "sign", "execute"}

\* C1: whenever _determine_winners has returned a result, for any scored
\* bids and any positive supply, the allocations of the result sum to at
\* most the supply.
AllocationWithinSupply ==
    \A t \in Tasks :
        HasResult(t) =>
            SumOver(ResultOf(t).allocations, DOMAIN ResultOf(t).allocations)
                <= SupplyOf(t)

\* C1's case: two winners share the whole supply, the supply cutting the
\* allocation of one of them below what the bid asks and can pay for.
AllocationWithinSupplyWitness ==
    \E t \in Tasks :
        /\ HasResult(t)
        /\ SupplyOf(t) > 0
        /\ Len(ResultOf(t).winners) >= 2
        /\ SumOver(ResultOf(t).allocations, DOMAIN ResultOf(t).allocations)
              = SupplyOf(t)
        /\ \E b \in BidDataOf(t) :
              /\ Allocated(ResultOf(t), b.bidder) > 0
              /\ Allocated(ResultOf(t), b.bidder) < Entitlement(b)

\* C2: every winner of a result is allocated at most the quantity of its
\* bid (bid_amounts) and at most floor(max_spend / price) at its own price.
AllocationWithinDemandAndBudget ==
    \A t \in Tasks :
        HasResult(t) =>
            \A b \in BidDataOf(t) :
                b.bidder \in DOMAIN ResultOf(t).allocations =>
                    /\ ResultOf(t).allocations[b.bidder]
                          <= ResultOf(t).bid_amounts[b.bidder]
                    /\ ResultOf(t).allocations[b.bidder] <= b.max_spend \div b.price

\* C2's case: a winner whose budget, not its demand or the supply, sets its
\* allocation: it receives floor(max_spend / price), less than it asked for,
\* and supply is left over.
AllocationWithinDemandAndBudgetWitness ==
    \E t \in Tasks :
        /\ HasResult(t)
        /\ \E b \in BidDataOf(t) :
              /\ b.bidder \in DOMAIN ResultOf(t).allocations
              /\ ResultOf(t).allocations[b.bidder] = b.max_spend \div b.price
              /\ ResultOf(t).allocations[b.bidder] < b.quantity
        /\ SumOver(ResultOf(t).allocations, DOMAIN ResultOf(t).allocations)
              < SupplyOf(t)

\* C3: in every result (the bids are one per bidder address) no address is
\* twice in winners, the keys of allocations are the set of winners, and
\* every allocation is greater than 0.
WinnersMatchAllocations ==
    \A t \in Tasks :
        HasResult(t) =>
            LET r == ResultOf(t) IN
            /\ \A i, j \in DOMAIN r.winners : r.winners[i] = r.winners[j] => i = j
            /\ DOMAIN r.allocations = Range(r.winners)
            /\ \A b \in DOMAIN r.allocations : r.allocations[b] > 0

\* C3's case: a result with two winners and a bid that was passed over with
\* an allocation of 0 although it outscores a winner.
WinnersMatchAllocationsWitness ==
    \E t \in Tasks :
        /\ HasResult(t)
        /\ Len(ResultOf(t).winners) >= 2
        /\ \E i, j \in DOMAIN task[t].scored_bids :
              /\ task[t].scored_bids[i].bid_data.bidder \notin Range(ResultOf(t).winners)
              /\ task[t].scored_bids[j].bid_data.bidder \in Range(ResultOf(t).winners)
              /\ FracLess(task[t].scored_bids[j].total_score,
                          task[t].scored_bids[i].total_score)

\* C4: a call of process_settlement that completes for a sale whose
\* settlement is already stored leaves the stored entry as the first call
\* stored it (same result fields, same signature, same timestamp).
SecondCallKeepsStoredSettlement ==
    [][\A t \in Tasks :
          (/\ task[t].pc = "execute"
           /\ task'[t].pc # "execute"
           /\ task[t].sale \in DOMAIN settlement_results)
          => /\ task[t].sale \in DOMAIN settlement_results'
             /\ settlement_results'[task[t].sale] = settlement_results[task[t].sale]]_vars

\* C5: over any interleaving of the expiry check, the manual endpoint and
\* retries, _sign_settlement signs at most once for each sale.
SignedAtMostOnce == \A s \in Sales : signatures[s] <= 1

\* C6: no two runs of process_settlement for the same sale are both between
\* the start of the scoring and the end of the signing.
OneRunInPipelinePerSale ==
    \A t1, t2 \in Tasks :
        (t1 # t2 /\ task[t1].pc \in PipelinePcs /\ task[t2].pc \in PipelinePcs)
            => task[t1].sale # task[t2].sale

\* C6's case: two runs for the same sale are under way at once, one of them
\* in the pipeline while the other waits for its RPC call to answer.
OneRunInPipelinePerSaleWitness ==
    \E t1, t2 \in Tasks :
        /\ t1 # t2
        /\ task[t1].sale = task[t2].sale
        /\ task[t1].pc \in PipelinePcs
        /\ task[t2].pc = "rpc"

TiesInAddressOrder ==
    \A t \in Tasks :
        LET sorted_bids == SortedBids(task[t].scored_bids) IN
        \A i, j \in DOMAIN sorted_bids :
            (/\ i < j
             /\ ~FracLess(sorted_bids[i].total_score, sorted_bids[j].total_score)
             /\ ~FracLess(sorted_bids[j].total_score, sorted_bids[i].total_score))
            => sorted_bids[i].bid_data.bidder < sorted_bids[j].bid_data.bidder

\* C9: a run without the OpenAI client, over the same bids of the same sale
\* as the run whose settlement is stored, computes the stored clearing price,
\* winners and allocations, in whatever order it found the bidders.
SameBidsSameResult ==
    \A t \in Tasks :
        (/\ HasResult(t)
         /\ ~openai_client
         /\ task[t].sale \in DOMAIN settlement_results
         /\ DOMAIN ResultOf(t).bid_amounts
               = DOMAIN settlement_results[task[t].sale].bid_amounts)
        => LET stored == settlement_results[task[t].sale] IN
           /\ ResultOf(t).clearing_price = stored.clearing_price
           /\ ResultOf(t).winners = stored.winners
           /\ ResultOf(t).allocations = stored.allocations

\* Task t calls process_settlement(s) in this step.
Invokes(t, s) ==
    IF t = MONITOR
    THEN MonitorNext /\ invocations' # invocations /\ Head(task[MONITOR].queue).id = s
    ELSE ProcessSaleEndpoint(t, s)

\* C10: no run of process_settlement is past its deadline check, nothing is
\* signed and nothing is stored for a sale before the sale's deadline; a call
\* of process_settlement before the deadline fails at once and leaves
\* settlement_results, processed_sales and the signatures as they were.
NoSettlementBeforeDeadline ==
    /\ [](\A t \in Tasks :
             task[t].pc \in RunPcs => chain[task[t].sale].deadline <= now)
    /\ [](\A s \in Sales :
             /\ signatures[s] > 0 => chain[s].deadline <= now
             /\ s \in DOMAIN settlement_results
                   => chain[s].deadline <= settlement_results[s].timestamp)
    /\ [][\A t \in Tasks, s \in Sales :
             (Invokes(t, s) /\ now < chain[s].deadline)
             => /\ task'[t].pc \notin RunPcs
                /\ t \in Handlers => task'[t].outcome = "error"
                /\ UNCHANGED <<settlement_results, processed_sales, signatures>>]_vars

\* C10's case: with the contract configured and every sale still open, the
\* manual endpoint was called and answered with an error; nothing is stored.
NoSettlementBeforeDeadlineWitness ==
    /\ ico_contract
    /\ \A s \in Sales : now < chain[s].deadline
    /\ invocations > 0
    /\ \E t \in Handlers : task[t].pc = "idle" /\ task[t].outcome = "error"
    /\ settlement_results = <<>>
    /\ processed_sales = {}

\* C11: once start() has returned, the monitoring loop runs: main() gets to
\* the body of the loop of _start_monitoring, where the expiry check hands
\* the expired sales to process_settlement.
MonitoringRunsAfterStart == (main = "started") ~> (main = "monitoring")

\* C12: a run that finds no bid for its sale ends without an error and
\* leaves, stored under the sale, a settlement with no winner, no allocation
\* and a clearing price of 0.
EmptySaleYieldsEmptyResult ==
    [][\A t \in Tasks :
          (task[t].pc = "collect" /\ task'[t].pc \notin RunPcs)
          => LET s == task[t].sale IN
             /\ t \in Handlers => task'[t].outcome = "success"
             /\ s \in DOMAIN settlement_results'
             /\ settlement_results'[s].winners = <<>>
             /\ DOMAIN settlement_results'[s].allocations = {}
             /\ settlement_results'[s].clearing_price.num = 0]_vars

\* The payload that bidder submitted for the sale of task t's run.
PayloadOf(t, bidder) == chain[task[t].sale].bids[bidder].encrypted_data

\* C13: a payload that does not decode produces no bid: every decrypted bid,
\* and every bid that is scored or allocated to, comes from a payload that
\* decodes, with the price, quantity, pitch and country decoded from it.
NormalizerNeverFabricates ==
    \A t \in Tasks :
        /\ \A i \in DOMAIN task[t].decrypted_bids :
              LET bid_data == task[t].decrypted_bids[i]
                  payload == PayloadOf(t, bid_data.bidder)
              IN /\ payload.valid
                 /\ bid_data.price = payload.price_usdc_wei
                 /\ bid_data.quantity = WholeTokens(payload.quantity_tokens_wei)
                 /\ bid_data.pitch = payload.pitch
                 /\ bid_data.country = payload.country
        /\ \A i \in DOMAIN task[t].scored_bids :
              PayloadOf(t, task[t].scored_bids[i].bid_data.bidder).valid
        /\ HasResult(t) =>
              \A bidder \in DOMAIN ResultOf(t).allocations :
                  PayloadOf(t, bidder).valid

\* The bidders of a sequence of collected bids, or of scored bids.
BiddersOf(bids) == {bids[i].bidder : i \in DOMAIN bids}
ScoredBidders(scored_bids) == {scored_bids[i].bid_data.bidder : i \in DOMAIN scored_bids}

\* C14: a bid whose payload fails to decode is left out and nothing else is:
\* the bids that reach the allocation step are exactly the collected bids
\* whose payload decodes.
FailingBidAloneExcluded ==
    \A t \in Tasks :
        task[t].pc \in {"allocate", "sign", "execute"}
        => ScoredBidders(task[t].scored_bids)
              = {bidder \in BiddersOf(task[t].bids) : PayloadOf(t, bidder).valid}

\* C15: every bid handed to the allocation step has a price above 0 and a
\* quantity of at least one token.
AllocatedBidsArePositive ==
    \A t \in Tasks :
        task[t].pc = "allocate"
        => \A i \in DOMAIN task[t].scored_bids :
              /\ task[t].scored_bids[i].bid_data.price > 0
              /\ task[t].scored_bids[i].bid_data.quantity > 0

\* C16: when the allocation or the signing of a run raises, the step that
\* ends the run stores no settlement and counts no signature, the manual
\* endpoint answers with an error and the monitoring pass does not mark the
\* sale as processed.
FailedRunStoresNothing ==
    [][\A t \in Tasks :
          (task[t].pc \in {"allocate", "sign"} /\ task'[t].pc \notin {"sign", "execute"})
          => /\ UNCHANGED <<settlement_results, signatures>>
             /\ t \in Handlers => task'[t].outcome = "error"
             /\ t = MONITOR => UNCHANGED processed_sales]_vars

\* C16's case: the only bid of sale 1 decodes to a price of 0, the allocation
\* raised on it, the endpoint answered with an error and nothing is stored.
FailedRunStoresNothingWitness ==
    /\ DOMAIN chain[1].bids = {1}
    /\ chain[1].bids[1].encrypted_data.valid
    /\ chain[1].bids[1].encrypted_data.price_usdc_wei = 0
    /\ task[1].pc = "idle"
    /\ task[1].outcome = "error"
    /\ signatures[1] = 0
    /\ settlement_results = <<>>

\* A result that breaks the allocation invariants for a supply: more tokens
\* allocated than the supply, or allocations keyed by others than the winners.
ViolatesAllocationInvariants(r, supply) ==
    \/ SumOver(r.allocations, DOMAIN r.allocations) > supply
    \/ DOMAIN r.allocations # Range(r.winners)

StoredSettlementNeverChanges ==
    [][\A s \in DOMAIN settlement_results :
          /\ s \in DOMAIN settlement_results'
          /\ settlement_results'[s] = settlement_results[s]]_vars

\* What the agent holds about sale o: its stored settlement, its processed
\* flag and its record in active_sales.
SaleState(o) ==
    [stored |-> IF o \in DOMAIN settlement_results THEN <<settlement_results[o]>> ELSE <<>>,
     processed |-> o \in processed_sales,
     active |-> {active_sales[i] : i \in {j \in DOMAIN active_sales : active_sales[j].id = o}}]

\* Task t takes a step of a run of process_settlement for sale s: the call
\* itself or any later step of the run.
RunStep(t, s) ==
    \/ Invokes(t, s)
    \/ /\ task[t].pc \in RunPcs
       /\ task[t].sale = s
       /\ task'[t] # task[t]

\* C19: every step of a run of process_settlement for one sale, from the
\* call to the return, leaves the stored settlement, the processed flag and
\* the active_sales record of every other sale as they were, whatever other
\* runs are under way.
RunLeavesOtherSalesUnchanged ==
    [][\A t \in Tasks, s \in Sales :
          RunStep(t, s) => \A o \in Sales \ {s} : SaleState(o)' = SaleState(o)]_vars

\* C19's case: runs for two sales interleave: the first request, for sale 1,
\* waited for its RPC scan while the second request settled and stored sale
\* 2, and now goes on to submit its own settlement; sale 1 has none stored.
RunLeavesOtherSalesUnchangedWitness ==
    /\ invocations = 2
    /\ processed_sales = {}
    /\ task[MONITOR].pc = "idle"
    /\ task[1].pc = "execute"
    /\ task[1].sale = 1
    /\ task[2].pc = "idle"
    /\ task[2].outcome = "success"
    /\ DOMAIN settlement_results = {2}

\* The signatures the agent holds: those of the runs that have signed and
\* those of the stored settlements, each with the sale and the encoded result
\* it was made for.
SignedSettlements ==
    {[sale_id |-> task[t].sale,
      result_data |-> EncodeSettlementResult(ResultOf(t)),
      signature |-> task[t].signature[1]] : t \in {u \in Tasks : task[u].signature # <<>>}}
    \cup
    {[sale_id |-> s,
      result_data |-> EncodeSettlementResult(settlement_results[s]),
      signature |-> settlement_results[s].signature] : s \in DOMAIN settlement_results}

\* Another contract instance than the agent's.
OTHER_ADDRESS == "other_contract_address"

ScoreOfBidder(t, bidder) ==
    LET i == CHOOSE k \in DOMAIN task[t].scored_bids :
                 task[t].scored_bids[k].bid_data.bidder = bidder
    IN task[t].scored_bids[i].total_score

RECURSIVE ValueOf(_, _)
ValueOf(r, B) ==
    IF B = {} THEN 0
    ELSE LET b == CHOOSE x \in B : TRUE
         IN Allocated(r, b.bidder) * b.price + ValueOf(r, B \ {b})

\* C22: the clearing price of a result is the sum over the winners of
\* allocation times own bid price, divided by the number of tokens allocated
\* (the supply less what remains), when a token was allocated, and 0 otherwise.
ClearingPriceIsWeightedAverage ==
    \A t \in Tasks :
        HasResult(t) =>
            LET r == ResultOf(t)
                allocated == SumOver(r.allocations, DOMAIN r.allocations)
            IN IF allocated > 0
               THEN r.clearing_price.num * allocated
                       = ValueOf(r, BidDataOf(t)) * r.clearing_price.den
               ELSE r.clearing_price.num = 0

\* C22's case: two winners at different prices, with a clearing price
\* strictly between the two prices.
ClearingPriceIsWeightedAverageWitness ==
    \E t \in Tasks :
        /\ HasResult(t)
        /\ \E a, b \in BidDataOf(t) :
              /\ Allocated(ResultOf(t), a.bidder) > 0
              /\ Allocated(ResultOf(t), b.bidder) > 0
              /\ a.price * ResultOf(t).clearing_price.den < ResultOf(t).clearing_price.num
              /\ ResultOf(t).clearing_price.num < b.price * ResultOf(t).clearing_price.den

\* Bid A (2.0 USDC, 800 tokens, 2000 USDC, score 90) of bidder 1 and bid B
\* (1.5 USDC, 500 tokens, 1000 USDC, score 70) of bidder 2.
ScenarioBidA == ScoredBidOf(1, <<2000000, 800, 2000000000>>, 90)
ScenarioBidB == ScoredBidOf(2, <<1500000, 500, 1000000000>>, 70)

\* The run of task t is over bids A and B, in either order, for 1000 tokens.
IsScenario(t) ==
    /\ SupplyOf(t) = 1000
    /\ task[t].scored_bids \in {<<ScenarioBidA, ScenarioBidB>>, <<ScenarioBidB, ScenarioBidA>>}

\* C23: with a supply of 1000 and the bids A and B, _determine_winners gives
\* A 800 tokens and B 200 tokens, winners [A, B], and a clearing price of
\* 1.9 USDC (1900000 USDC wei).
ScenarioAllocation ==
    \A t \in Tasks :
        (HasResult(t) /\ IsScenario(t)) =>
            LET r == ResultOf(t) IN
            /\ DOMAIN r.allocations = {1, 2}
            /\ r.allocations[1] = 800
            /\ r.allocations[2] = 200
            /\ r.winners = <<1, 2>>
            /\ r.clearing_price.num = 1900000 * r.clearing_price.den

\* C23's case: _determine_winners has returned for the scenario, with B
\* handed in before A.
ScenarioAllocationWitness ==
    \E t \in Tasks :
        /\ HasResult(t)
        /\ SupplyOf(t) = 1000
        /\ task[t].scored_bids = <<ScenarioBidB, ScenarioBidA>>
        /\ task[t].pc = "sign"

\* C24: a bid with a max_spend of 0 is allocated nothing and is not among
\* the winners of any result, whatever its score and the supply.
ZeroBudgetNeverWins ==
    \A t \in Tasks :
        HasResult(t) =>
            \A b \in BidDataOf(t) :
                b.max_spend = 0
                => /\ b.bidder \notin DOMAIN ResultOf(t).allocations
                   /\ b.bidder \notin Range(ResultOf(t).winners)

\* C24's case: the bid with nothing to spend has the highest score of the
\* run and asks for tokens, a lower-scored bid wins, and supply is left over.
ZeroBudgetNeverWinsWitness ==
    \E t \in Tasks :
        /\ HasResult(t)
        /\ \E i, j \in DOMAIN task[t].scored_bids :
              LET zero == task[t].scored_bids[i]
                  other == task[t].scored_bids[j]
              IN /\ zero.bid_data.max_spend = 0
                 /\ zero.bid_data.quantity > 0
                 /\ FracLess(other.total_score, zero.total_score)
                 /\ Allocated(ResultOf(t), other.bid_data.bidder) > 0
        /\ SumOver(ResultOf(t).allocations, DOMAIN ResultOf(t).allocations) < SupplyOf(t)

\* C25: in every result bid_amounts has, for every scored bid handed to
\* _determine_winners and for no one else, the entry bidder -> quantity,
\* winner or not, and total_bids is the sum of the quantities of those bids.
BidAmountsCoverEveryBid ==
    \A t \in Tasks :
        HasResult(t) =>
            LET r == ResultOf(t) IN
            /\ DOMAIN r.bid_amounts = {b.bidder : b \in BidDataOf(t)}
            /\ \A b \in BidDataOf(t) : r.bid_amounts[b.bidder] = b.quantity
            /\ r.total_bids = SumOver(r.bid_amounts, DOMAIN r.bid_amounts)

\* C25's case: three bids, of which one takes the whole supply, one is
\* ranked after the supply ran out and one cannot pay; all three are recorded.
BidAmountsCoverEveryBidWitness ==
    \E t \in Tasks :
        /\ HasResult(t)
        /\ Cardinality(DOMAIN ResultOf(t).bid_amounts) = 3
        /\ Len(ResultOf(t).winners) = 1
        /\ SumOver(ResultOf(t).allocations, DOMAIN ResultOf(t).allocations) = SupplyOf(t)
        /\ \E b \in BidDataOf(t) : b.max_spend = 0
        /\ \E b \in BidDataOf(t) :
              /\ b.max_spend > 0
              /\ Allocated(ResultOf(t), b.bidder) = 0
        /\ ResultOf(t).total_bids > SupplyOf(t)

RelativePriceScore ==
    \A t \in Tasks :
        task[t].max_price > 0 =>
            \A i \in DOMAIN task[t].scored_bids :
                LET x == task[t].scored_bids[i] IN
                /\ x.price_score.den = task[t].max_price
                /\ x.price_score.num = Min(100 * task[t].max_price, 100 * x.bid_data.price)
                /\ x.bid_data.price = task[t].max_price
                      => x.price_score.num = 100 * x.price_score.den
                /\ \A j \in DOMAIN task[t].scored_bids :
                      LET y == task[t].scored_bids[j] IN
                      x.bid_data.price < y.bid_data.price
                      => ~FracLess(y.price_score, x.price_score)

\* C27's case: a bid at the highest price with a price_score of 100 and a
\* bid at half that price with a price_score of 50.
RelativePriceScoreWitness ==
    \E t \in Tasks :
        \E i, j \in DOMAIN task[t].scored_bids :
            LET x == task[t].scored_bids[i]
                y == task[t].scored_bids[j]
            IN /\ y.bid_data.price = task[t].max_price
               /\ 2 * x.bid_data.price = y.bid_data.price
               /\ y.price_score.num = 100 * y.price_score.den
               /\ x.price_score.num = 50 * x.price_score.den

\* A fraction that is a number between 0 and 100.
InScoreRange(x) == x.den > 0 /\ 0 <= x.num /\ x.num <= 100 * x.den

\* C28: every scored bid has a price_score, a geo_score and a pitch_score
\* between 0 and 100, whichever way the pitch was scored, and a total_score
\* that is 0.6 * price_score + 0.2 * geo_score + 0.2 * pitch_score and so
\* lies between 0 and 100 as well.
ScoresWithinRange ==
    \A t \in Tasks :
        \A i \in DOMAIN task[t].scored_bids :
            LET x == task[t].scored_bids[i] IN
            /\ InScoreRange(x.price_score)
            /\ 0 <= x.geo_score /\ x.geo_score <= 100
            /\ InScoreRange(x.pitch_score)
            /\ x.total_score = TotalScore(x.price_score, x.geo_score, x.pitch_score)
            /\ InScoreRange(x.total_score)

\* The pitch of the i-th scored bid of task t's run was scored by a fallback:
\* the agent has no OpenAI client, or the OpenAI call failed.
TookFallback(t, i) == ~openai_client \/ task[t].answers[i].error

\* C29: the fallback score of a pitch depends on the text alone: a pitch
\* scored by a fallback has the score the fallback gives that text when
\* there is no client and also the score it gives when the call failed.
FallbackScoreDependsOnTextOnly ==
    \A t \in Tasks :
        \A i \in DOMAIN task[t].scored_bids :
            TookFallback(t, i) =>
                LET pitch == task[t].scored_bids[i].bid_data.pitch IN
                /\ task[t].scored_bids[i].pitch_score = ScorePitch(pitch, FALSE, NoAnswer)
                /\ task[t].scored_bids[i].pitch_score = ScorePitch(pitch, TRUE, NoAnswer)

\* C30: a failed OpenAI call fails neither the scoring of the bid nor the
\* run: once a run has scored, it has a scored bid for every decrypted bid
\* and goes on to the allocation, and a bid whose call failed has the
\* fallback pitch score min(len(pitch) / 10 + 40, 75).
EvaluatorErrorFallsBack ==
    \A t \in Tasks :
        task[t].answers # <<>> =>
            /\ task[t].pc \in {"allocate", "sign", "execute"}
            /\ Len(task[t].scored_bids) = Len(task[t].decrypted_bids)
            /\ \A i \in DOMAIN task[t].scored_bids :
                  /\ task[t].scored_bids[i].bid_data = task[t].decrypted_bids[i]
                  /\ (openai_client /\ task[t].answers[i].error) =>
                        /\ task[t].scored_bids[i].pitch_score.den = 10
                        /\ task[t].scored_bids[i].pitch_score.num
                              = Min(task[t].scored_bids[i].bid_data.pitch.len + 400, 750)

\* C30's case: with an OpenAI client, the call failed for the first bid of a
\* run and gave a number for the second; both bids are scored, the first
\* with the fallback score of 42 for its pitch of 20 characters.
EvaluatorErrorFallsBackWitness ==
    /\ openai_client
    /\ \E t \in Tasks :
          /\ task[t].pc = "allocate"
          /\ Len(task[t].scored_bids) = 2
          /\ task[t].answers[1].error
          /\ ~task[t].answers[2].error
          /\ ~task[t].answers[2].nan
          /\ task[t].scored_bids[1].bid_data.pitch.len = 20
          /\ task[t].scored_bids[1].pitch_score = [num |-> 420, den |-> 10]

\* C31: in the settlement parameters a run builds for the custody contract,
\* the payment of every winner, allocation times clearing price, is at most
\* the max_spend of that winner's bid.
PaymentWithinBudget ==
    \A t \in Tasks :
        task[t].pc = "execute" =>
            \A b \in BidDataOf(t) :
                b.bidder \in DOMAIN ResultOf(t).allocations
                => BuildSettlementParams(ResultOf(t))[b.bidder].usdc_payment <= b.max_spend

\* The winners of a result that received less than their bid asks for and
\* can pay for at its own price.
Shorted(t) ==
    {b \in BidDataOf(t) :
        /\ b.bidder \in DOMAIN ResultOf(t).allocations
        /\ ResultOf(t).allocations[b.bidder] < Entitlement(b)}

\* What the bids ask for and can pay for, summed over the bids B.
RECURSIVE TotalEntitlement(_)
TotalEntitlement(B) ==
    IF B = {} THEN 0
    ELSE LET b == CHOOSE x \in B : TRUE
         IN Entitlement(b) + TotalEntitlement(B \ {b})

\* The tokens a result gives to the first n of the bids in score order.
RECURSIVE AllocatedToFirst(_, _, _)
AllocatedToFirst(r, sorted_bids, n) ==
    IF n = 0 THEN 0
    ELSE AllocatedToFirst(r, sorted_bids, n - 1)
            + Allocated(r, sorted_bids[n].bid_data.bidder)

\* C32: the tokens a result allocates are min(supply, sum over the bids of
\* min(quantity, floor(max_spend / price))), and tokens are left over only
\* when every bid received its full min(quantity, floor(max_spend / price)).
AllocationIsWorkConserving ==
    \A t \in Tasks :
        HasResult(t) =>
            LET r == ResultOf(t)
                allocated == SumOver(r.allocations, DOMAIN r.allocations)
            IN /\ allocated = Min(SupplyOf(t), TotalEntitlement(BidDataOf(t)))
               /\ allocated < SupplyOf(t)
                     => \A b \in BidDataOf(t) : Allocated(r, b.bidder) = Entitlement(b)

\* C33: in every result at most one winner, and only the last of winners,
\* is allocated less than min(quantity, floor(max_spend / price)), and a bid
\* ranked behind the bids that used up the supply is allocated nothing.
OnlyLastWinnerShorted ==
    \A t \in Tasks :
        HasResult(t) =>
            LET r == ResultOf(t)
                sorted_bids == SortedBids(task[t].scored_bids)
            IN /\ Cardinality(Shorted(t)) <= 1
               /\ \A b \in Shorted(t) : b.bidder = r.winners[Len(r.winners)]
               /\ \A i \in DOMAIN sorted_bids :
                     AllocatedToFirst(r, sorted_bids, i - 1) >= SupplyOf(t)
                     => Allocated(r, sorted_bids[i].bid_data.bidder) = 0

\* C34: whenever a result allocates a token, its clearing price, in the
\* USDC wei the bid prices and the signed result data are in, is at least the
\* lowest and at most the highest bid price among the winners, and not
\* negative.
ClearingPriceWithinWinnerPrices ==
    \A t \in Tasks :
        (HasResult(t) /\ ResultOf(t).winners # <<>>) =>
            LET r == ResultOf(t)
                prices == {b.price : b \in {x \in BidDataOf(t) : x.bidder \in Range(r.winners)}}
                clearing_price == ClearingPriceWei(r.clearing_price)
            IN /\ clearing_price >= 0
               /\ \E p \in prices : p <= clearing_price
               /\ \E p \in prices : clearing_price <= p

\* The step of the monitoring pass in which its call of process_settlement
\* raises: the allocation and the signing come back to the expiry check only
\* by raising, the execution stores the settlement unless it raises.
MonitorRaises ==
    /\ task'[MONITOR].pc = "check"
    /\ \/ task[MONITOR].pc \in {"allocate", "sign"}
       \/ /\ task[MONITOR].pc = "execute"
          /\ task[MONITOR].sale \notin DOMAIN settlement_results'

\* C35: the expiry check adds a sale to processed_sales only in the step in
\* which its call of process_settlement for that sale returns and does not
\* raise; when the call raises the sale stays out of processed_sales, and the
\* next expiry check that comes to the sale hands it to process_settlement
\* again; a sale in processed_sales is never handed to process_settlement by
\* the expiry check.
ProcessedOnlyAfterReturn ==
    [][/\ \A s \in processed_sales' \ processed_sales :
             /\ task[MONITOR].pc \in RunPcs
             /\ task[MONITOR].sale = s
             /\ task'[MONITOR].pc = "check"
             /\ ~MonitorRaises
       /\ MonitorRaises => task[MONITOR].sale \notin processed_sales'
       /\ (/\ task[MONITOR].pc = "check"
           /\ task[MONITOR].queue # <<>>
           /\ task'[MONITOR] # task[MONITOR])
          => LET sale_data == Head(task[MONITOR].queue) IN
             (sale_data.deadline <= task[MONITOR].current_time
              /\ sale_data.id \notin processed_sales)
             <=> Invokes(MONITOR, sale_data.id)
       /\ \A s \in Sales : Invokes(MONITOR, s) => s \notin processed_sales]_vars

\* C35's case: the first call of the expiry check for sale 1 signed and then
\* raised in the execution, sale 1 stayed out of processed_sales, and a later
\* expiry check has handed sale 1 to process_settlement again.
ProcessedOnlyAfterReturnWitness ==
    /\ task[MONITOR].pc \in RunPcs
    /\ task[MONITOR].sale = 1
    /\ task[MONITOR].signature = <<>>
    /\ signatures[1] = 1
    /\ 1 \notin DOMAIN settlement_results
    /\ 1 \notin processed_sales
    /\ invocations = 2

\* C36: a settlement with a winner is in settlement_results, and its sale in
\* processed_sales, only if the batch settlement transaction of the sale was
\* confirmed with status 1.
StoredOnlyIfBatchConfirmed ==
    \A s \in DOMAIN settlement_results :
        settlement_results[s].winners # <<>> => chain[s].settled

====
